---- MODULE Spec2Model ----
(***************************************************************************)
(* Colored Petri net engine of pntk: src/pntk/elements.py (Place,          *)
(* Transition, Arc) and src/pntk/petri_net.py (ColoredPetriNet).           *)
(*                                                                         *)
(* Python objects are modelled by their identity: a node's uuid is its     *)
(* name string, an Arc's uuid is "a1", "a2", ... in creation order.          *)
(* A dict is a function whose DOMAIN is the key set; where the code        *)
(* iterates a dict whose order matters, the keys are kept as a sequence.   *)
(* A Python exception leaves every assignment made before it in place;     *)
(* the call's outcome (return value or exception name) is kept in `last`.  *)
(* Times are integers.                                                     *)
(***************************************************************************)
EXTENDS Integers, Sequences, FiniteSets, TLC

\* ---------------------------------------------------------------- bounds
MaxInit   == 2   \* largest initial token count of a place
MaxDur    == 2   \* largest consumption duration, and largest delta passed to tick
MaxArcs   == 2   \* number of add_arc calls explored
MaxTokens == 2   \* markings are explored within -MaxTokens..MaxTokens
MaxExtra  == 1   \* completions counted beyond the starts of a transition

\* ------------------------------------------------------- object universe
Places      == {"P1", "P2"}          \* Place objects the caller constructs
Transitions == {"T1", "T2"}          \* Transition objects the caller constructs
NonNode     == "X"                   \* an object that is neither
Nodes       == Places \cup Transitions
Objects     == Nodes \cup {NonNode}

\* Order in which the keys of a marking / annotation dict were inserted.
ColorOrder == <<"0", "r">>

Range(s) == {s[i] : i \in DOMAIN s}

\* d.keys(), in insertion order
Keys(d) == SelectSeq(ColorOrder, LAMBDA k : k \in DOMAIN d)

\* d[k] = v
DictSet(d, k, v) == [x \in (DOMAIN d) \cup {k} |-> IF x = k THEN v ELSE d[x]]

EmptyDict == [x \in {} |-> 0]

\* Arc.__init__'s default argument annotation={'0':1}
DefaultAnnotation == [k \in {"0"} |-> 1]

\* the annotation a caller assigns to an arc in place of the default
MultiAnnotation == [k \in {"0", "r"} |-> 1]

\* f'{node1.name}->{node2.name}'
ArcName(n1, n2) == n1 \o "->" \o n2

VARIABLES
    places,           \* net.places: ids, insertion order
    transitions,      \* net.transitions: ids, insertion order
    arcs,             \* net.arcs: arc ids, insertion order
    adj,              \* net.adj: (id, id) -> arc id
    name_node,        \* net.name_node: name -> object
    id_name,          \* net.id_name: id -> name
    arcObj,           \* every Arc object constructed so far: arc id -> fields
    ins, outs,        \* node.ins / node.outs: neighbour ids
    in_arcs, out_arcs,\* node.in_arcs / node.out_arcs: arc ids, insertion order
    marking,          \* place.marking
    initial_marking,  \* place.initial_marking
    status,           \* transition.status
    work_status,      \* transition.work_status
    time,             \* transition.time (remaining time)
    consumption,      \* transition.consumption
    in_flight,        \* per transition: successful on_fire_transition calls
                      \* minus completions by tick
    fixture,          \* the objects and arguments the caller uses in this run
    last              \* the last call made on the net and its outcome

netVars   == <<places, transitions, arcs, adj, name_node, id_name>>
nodeVars  == <<ins, outs, in_arcs, out_arcs>>
transVars == <<work_status, time>>
vars == <<places, transitions, arcs, adj, name_node, id_name, arcObj,
          ins, outs, in_arcs, out_arcs, marking, initial_marking,
          status, work_status, time, consumption, in_flight, fixture, last>>

\* ------------------------------------------------------------- readiness

\* arc_ready requiring more tokens than the weight (> in place of >=)
RECURSIVE arc_ready_keys_strict(_, _, _)
arc_ready_keys_strict(ks, ann, m) ==
    IF ks = <<>> THEN "False"
    ELSE IF Head(ks) \notin DOMAIN m THEN "KeyError"
    ELSE IF m[Head(ks)] - ann[Head(ks)] > 0 THEN "True"
    ELSE arc_ready_keys_strict(Tail(ks), ann, m)

\* the loop of arc_ready over arc.annotation.keys(): "True" at the first key
\* whose count covers its weight, "KeyError" when the marking has no such key
RECURSIVE arc_ready_keys(_, _, _)
arc_ready_keys(ks, ann, m) ==
    IF ks = <<>> THEN "False"
    ELSE IF Head(ks) \notin DOMAIN m THEN "KeyError"
    ELSE IF m[Head(ks)] - ann[Head(ks)] >= 0 THEN "True"
    ELSE arc_ready_keys(Tail(ks), ann, m)

\* ColoredPetriNet.arc_ready; an Arc whose constructor returned early has no
\* direction attribute
arc_ready(arc, mk) ==
    IF arc.direction = "unset" THEN "AttributeError"
    ELSE IF arc.direction = "PtoT"
         THEN arc_ready_keys(Keys(arc.annotation), arc.annotation, mk[arc.node_in])
         ELSE "False"

\* the loop of transition_ready_check over transition.in_arcs.values()
RECURSIVE in_arcs_ready(_, _, _)
in_arcs_ready(as, ao, mk) ==
    IF as = <<>> THEN "True"
    ELSE LET r == arc_ready(ao[Head(as)], mk)
         IN  IF r = "True" THEN in_arcs_ready(Tail(as), ao, mk) ELSE r

\* ColoredPetriNet.transition_ready_check: the value returned (or the
\* exception raised) and the status fields after the call
transition_ready_check(t, ia, ao, st, mk) ==
    LET r == in_arcs_ready(ia[t], ao, mk)
    IN  [ret    |-> r,
         status |-> IF r = "True" THEN [st EXCEPT ![t] = "ready"]
                    ELSE IF r = "False" THEN [st EXCEPT ![t] = "unready"]
                    ELSE st]

\* ColoredPetriNet.update_ready_transition over the transitions ts
RECURSIVE update_ready_transition(_, _, _, _, _)
update_ready_transition(ts, ia, ao, st, mk) ==
    IF ts = <<>> THEN [exc |-> "None", status |-> st]
    ELSE LET c == transition_ready_check(Head(ts), ia, ao, st, mk)
         IN  IF c.ret \in {"True", "False"}
             THEN update_ready_transition(Tail(ts), ia, ao, c.status, mk)
             ELSE [exc |-> c.ret, status |-> c.status]

\* --------------------------------------------------------- token transfer

\* for k in place.marking.keys(): place.marking[k] -= / += annotation[k]
RECURSIVE transfer_keys(_, _, _, _)
transfer_keys(ks, ann, m, sign) ==
    IF ks = <<>> THEN [exc |-> "None", m |-> m]
    ELSE IF Head(ks) \notin DOMAIN ann THEN [exc |-> "KeyError", m |-> m]
    ELSE transfer_keys(Tail(ks), ann,
                       [m EXCEPT ![Head(ks)] = @ + sign * ann[Head(ks)]], sign)

\* consume with the loop left after its first arc
consume_first_arc(as, ao, mk) ==
    IF as = <<>> THEN [exc |-> "None", marking |-> mk]
    ELSE LET arc == ao[Head(as)] IN
         IF arc.direction = "unset" THEN [exc |-> "AttributeError", marking |-> mk]
         ELSE LET p == arc.node_in
                  r == transfer_keys(Keys(mk[p]), arc.annotation, mk[p], -1)
              IN  [exc |-> r.exc, marking |-> [mk EXCEPT ![p] = r.m]]

\* the input loop of fire_transition / on_fire_transition over in_arcs
RECURSIVE consume(_, _, _)
consume(as, ao, mk) ==
    IF as = <<>> THEN [exc |-> "None", marking |-> mk]
    ELSE LET arc == ao[Head(as)] IN
         IF arc.direction = "unset" THEN [exc |-> "AttributeError", marking |-> mk]
         ELSE LET p == arc.node_in
                  r == transfer_keys(Keys(mk[p]), arc.annotation, mk[p], -1)
                  mk1 == [mk EXCEPT ![p] = r.m]
              IN  IF r.exc # "None" THEN [exc |-> r.exc, marking |-> mk1]
                  ELSE consume(Tail(as), ao, mk1)

\* the output loop of fire_transition / tick over out_arcs
RECURSIVE produce(_, _, _)
produce(as, ao, mk) ==
    IF as = <<>> THEN [exc |-> "None", marking |-> mk]
    ELSE LET arc == ao[Head(as)] IN
         IF arc.direction = "unset" THEN [exc |-> "AttributeError", marking |-> mk]
         ELSE LET p == arc.node_out
                  r == transfer_keys(Keys(mk[p]), arc.annotation, mk[p], 1)
                  mk1 == [mk EXCEPT ![p] = r.m]
              IN  IF r.exc # "None" THEN [exc |-> r.exc, marking |-> mk1]
                  ELSE produce(Tail(as), ao, mk1)

\* ------------------------------------------------------------ the inputs

\* initial_marking arguments of the Place constructors
d0(n) == [k \in {"0"} |-> n]
d0r(n, m) == [k \in {"0", "r"} |-> IF k = "0" THEN n ELSE m]
Markings(m1, m2) == [p \in Places |-> IF p = "P1" THEN m1 ELSE m2]

\* time arguments of the Transition constructors
Times(d1, d2) == [t \in Transitions |-> IF t = "T1" THEN d1 ELSE d2]

\* What the caller has at hand in one run: the objects it passes to add_node
\* and to the firing calls, the (node1, node2) pairs it passes to add_arc, the
\* constructor arguments of its places and transitions, and whether it
\* assigns arc annotations of its own.
Fixture(ns, ps, mk, tm, an) ==
    [nodes |-> ns, pairs |-> ps, marking |-> mk, time |-> tm, annotates |-> an]

Fixtures ==
    \* P1 -> T1 -> P2, one colour, P1 holding 1..MaxInit tokens
    { Fixture({"P1", "T1", "P2"}, {<<"P1", "T1">>, <<"T1", "P2">>},
              Markings(d0(n), d0(0)), Times(MaxDur, 0), FALSE) : n \in 1..MaxInit }
    \cup
    \* the same net, P2 constructed with an empty marking
    { Fixture({"P1", "T1", "P2"}, {<<"P1", "T1">>, <<"T1", "P2">>},
              Markings(d0(1), EmptyDict), Times(MaxDur, 0), FALSE),
    \* the same net, places constructed with two colours, annotations assigned
      Fixture({"P1", "T1", "P2"}, {<<"P1", "T1">>, <<"T1", "P2">>},
              Markings(d0r(1, 0), d0r(0, 0)), Times(MaxDur, 0), TRUE),
    \* two transitions feeding one place, one of them of zero duration
      Fixture({"T1", "T2", "P2"}, {<<"T1", "P2">>, <<"T2", "P2">>},
              Markings(d0(1), d0(0)), Times(MaxDur, 0), FALSE),
    \* endpoints that are not one Place and one Transition
      Fixture({"T1", "T2", NonNode}, {<<"P1", "P2">>, <<"T1", "T2">>, <<NonNode, "T1">>},
              Markings(d0(1), d0(0)), Times(MaxDur, 0), FALSE) }

\* the deltas passed to tick
Deltas == 0..MaxDur

InBounds(mk) == \A p \in Places : \A k \in DOMAIN mk[p] : mk[p][k] \in (0 - MaxTokens)..MaxTokens

Call(op, n1, n2, dt, ret, changed) ==
    [op |-> op, node |-> n1, node2 |-> n2, dt |-> dt, ret |-> ret, changed |-> changed]

\* ------------------------------------------------------------------ Init

\* Place.__init__, Transition.__init__ for every object of the universe and
\* ColoredPetriNet.__init__
Init ==
    /\ places = <<>>
    /\ transitions = <<>>
    /\ arcs = <<>>
    /\ adj = [x \in {} |-> ""]
    /\ name_node = [x \in {} |-> ""]
    /\ id_name = [x \in {} |-> ""]
    /\ arcObj = [x \in {} |-> ""]
    /\ ins = [n \in Nodes |-> {}]
    /\ outs = [n \in Nodes |-> {}]
    /\ in_arcs = [n \in Nodes |-> <<>>]
    /\ out_arcs = [n \in Nodes |-> <<>>]
    /\ fixture \in Fixtures
    /\ marking = fixture.marking
    /\ initial_marking = marking
    /\ status = [t \in Transitions |-> "unready"]
    /\ work_status = [t \in Transitions |-> "unfiring"]
    /\ time = [t \in Transitions |-> 0]
    /\ consumption = fixture.time
    /\ in_flight = [t \in Transitions |-> 0]
    /\ last = Call("init", "-", "-", 0, "None", <<>>)

\* ------------------------------------------------------------- add_node

\* dict[key] = value on a dict whose keys are kept in insertion order
DictInsert(s, k) == IF k \in Range(s) THEN s ELSE Append(s, k)

\* ColoredPetriNet.add_node
add_node(node) ==
    LET ps == IF node \in Places THEN DictInsert(places, node) ELSE places
        ts == IF node \in Transitions THEN DictInsert(transitions, node) ELSE transitions
        u  == update_ready_transition(ts, in_arcs, arcObj, status, marking)
    IN  /\ places' = ps
        /\ transitions' = ts
        /\ name_node' = IF node \in Nodes THEN DictSet(name_node, node, node) ELSE name_node
        /\ id_name' = IF node \in Nodes THEN DictSet(id_name, node, node) ELSE id_name
        /\ status' = u.status
        /\ last' = Call("add_node", node, "-", 0, u.exc, <<>>)
        /\ UNCHANGED <<arcs, adj, arcObj, ins, outs, in_arcs, out_arcs, marking,
                       initial_marking, work_status, time, consumption, in_flight,
                       fixture>>

\* -------------------------------------------------------------- add_arc

\* Arc.__init__: the fields of the new object; the constructor returns before
\* setting any of them when the endpoints are not one Place and one Transition
Arc(node1, node2) ==
    IF node1 \in Places /\ node2 \in Transitions
    THEN [direction |-> "PtoT", node_in |-> node1, node_out |-> node2,
          name |-> ArcName(node1, node2), annotation |-> DefaultAnnotation]
    ELSE IF node2 \in Places /\ node1 \in Transitions
    THEN [direction |-> "TtoP", node_in |-> node1, node_out |-> node2,
          name |-> ArcName(node1, node2), annotation |-> DefaultAnnotation]
    ELSE [direction |-> "unset", node_in |-> "unset", node_out |-> "unset",
          name |-> "unset", annotation |-> EmptyDict]

\* uuid.uuid4() of the next Arc
NewArcId == "a" \o ToString(Cardinality(DOMAIN arcObj) + 1)

\* ColoredPetriNet.add_arc
add_arc(node1, node2) ==
    LET id  == NewArcId
        arc == Arc(node1, node2)
        ao  == DictSet(arcObj, id, arc)
        wired == node1 \in Nodes /\ node2 \in Nodes      \* lines 64-67 ran
        named == wired /\ arc.direction # "unset"         \* lines 68-70 ran
        ia  == IF wired THEN [in_arcs EXCEPT ![node2] = Append(@, id)] ELSE in_arcs
        u   == IF named
               THEN update_ready_transition(transitions, ia, ao, status, marking)
               ELSE [exc |-> "AttributeError", status |-> status]
    IN  /\ Cardinality(DOMAIN arcObj) < MaxArcs
        /\ arcObj' = ao
        /\ arcs' = Append(arcs, id)
        /\ outs' = IF wired THEN [outs EXCEPT ![node1] = @ \cup {node2}] ELSE outs
        /\ out_arcs' = IF wired THEN [out_arcs EXCEPT ![node1] = Append(@, id)] ELSE out_arcs
        /\ ins' = IF wired THEN [ins EXCEPT ![node2] = @ \cup {node1}] ELSE ins
        /\ in_arcs' = ia
        /\ name_node' = IF named THEN DictSet(name_node, arc.name, id) ELSE name_node
        /\ id_name' = IF named THEN DictSet(id_name, id, arc.name) ELSE id_name
        /\ adj' = IF named THEN DictSet(adj, <<node1, node2>>, id) ELSE adj
        /\ status' = u.status
        /\ last' = Call("add_arc", node1, node2, 0, u.exc, <<>>)
        /\ UNCHANGED <<places, transitions, marking, initial_marking,
                       work_status, time, consumption, in_flight, fixture>>

\* arc.annotation = {...}: add_arc passes no annotation to the constructor, so
\* a caller that wants another one assigns it to the arc it has just added
set_annotation(a) ==
    /\ fixture.annotates
    /\ last.op = "add_arc"
    /\ a = arcs[Len(arcs)]
    /\ arcObj[a].direction # "unset"
    /\ arcObj[a].annotation = DefaultAnnotation
    /\ arcObj' = [arcObj EXCEPT ![a].annotation = MultiAnnotation]
    /\ last' = Call("set_annotation", a, "-", 0, "None", <<>>)
    /\ UNCHANGED <<places, transitions, arcs, adj, name_node, id_name, ins, outs,
                   in_arcs, out_arcs, marking, initial_marking, status,
                   work_status, time, consumption, in_flight, fixture>>

\* ------------------------------------------------------ fire_transition

\* ColoredPetriNet.fire_transition: the markings and status fields it leaves
\* and what it returns (or raises)
fire_transition_effect(t) ==
    IF t \notin Range(transitions)
    THEN [ret |-> "False", marking |-> marking, status |-> status]
    ELSE LET c == transition_ready_check(t, in_arcs, arcObj, status, marking) IN
         IF c.ret # "True"
         THEN [ret |-> c.ret, marking |-> marking, status |-> c.status]
         ELSE LET i == consume(in_arcs[t], arcObj, marking) IN
              IF i.exc # "None"
              THEN [ret |-> i.exc, marking |-> i.marking, status |-> c.status]
              ELSE LET o == produce(out_arcs[t], arcObj, i.marking) IN
                   IF o.exc # "None"
                   THEN [ret |-> o.exc, marking |-> o.marking, status |-> c.status]
                   ELSE LET u == update_ready_transition(transitions, in_arcs, arcObj,
                                                         c.status, o.marking)
                        IN  [ret |-> IF u.exc = "None" THEN "True" ELSE u.exc,
                             marking |-> o.marking, status |-> u.status]

fire_transition(t) ==
    LET e == fire_transition_effect(t)
    IN  /\ InBounds(e.marking)
        /\ marking' = e.marking
        /\ status' = e.status
        /\ last' = Call("fire_transition", t, "-", 0, e.ret, <<>>)
        /\ UNCHANGED <<netVars, arcObj, nodeVars, initial_marking, transVars, consumption,
                       in_flight, fixture>>

\* --------------------------------------------------- on_fire_transition

\* on_fire_transition without its work_status guard (lines 219-222)
on_fire_transition_unguarded(t) ==
    LET same == [ret |-> "False", marking |-> marking, status |-> status,
                 work_status |-> work_status, time |-> time]
    IN
    IF t \notin Range(transitions) THEN same
    ELSE LET c == transition_ready_check(t, in_arcs, arcObj, status, marking) IN
         IF c.ret # "True"
         THEN [same EXCEPT !.ret = c.ret, !.status = c.status]
         ELSE LET i == consume(in_arcs[t], arcObj, marking) IN
              IF i.exc # "None"
              THEN [same EXCEPT !.ret = i.exc, !.marking = i.marking, !.status = c.status]
              ELSE [ret |-> "True", marking |-> i.marking, status |-> c.status,
                    work_status |-> [work_status EXCEPT ![t] = "firing"],
                    time |-> [time EXCEPT ![t] = consumption[t]]]

\* ColoredPetriNet.on_fire_transition
on_fire_transition_effect(t) ==
    LET same == [ret |-> "False", marking |-> marking, status |-> status,
                 work_status |-> work_status, time |-> time]
    IN
    IF t \notin Range(transitions) THEN same
    ELSE LET c == transition_ready_check(t, in_arcs, arcObj, status, marking) IN
         IF c.ret # "True"
         THEN [same EXCEPT !.ret = c.ret, !.status = c.status]
         ELSE IF work_status[t] = "firing"
         THEN [same EXCEPT !.status = c.status]
         ELSE LET i == consume(in_arcs[t], arcObj, marking) IN
              IF i.exc # "None"
              THEN [same EXCEPT !.ret = i.exc, !.marking = i.marking, !.status = c.status]
              ELSE [ret |-> "True", marking |-> i.marking, status |-> c.status,
                    work_status |-> [work_status EXCEPT ![t] = "firing"],
                    time |-> [time EXCEPT ![t] = consumption[t]]]

on_fire_transition(t) ==
    LET e == on_fire_transition_effect(t)
    IN  /\ InBounds(e.marking)
        /\ marking' = e.marking
        /\ status' = e.status
        /\ work_status' = e.work_status
        /\ time' = e.time
        /\ in_flight' = IF e.ret = "True" THEN [in_flight EXCEPT ![t] = @ + 1] ELSE in_flight
        /\ last' = Call("on_fire_transition", t, "-", 0, e.ret, <<>>)
        /\ UNCHANGED <<netVars, arcObj, nodeVars, initial_marking, consumption, fixture>>

\* ----------------------------------------------------------------- tick

\* Transition.tick without its work_status test (line 102)
Transition_tick_any(ws, tm, dt) ==
    IF tm - dt <= 0 THEN [time |-> 0, f |-> TRUE]
                    ELSE [time |-> tm - dt, f |-> FALSE]

\* Transition.tick without the clamp of line 105
Transition_tick_unclamped(ws, tm, dt) ==
    IF ws = "firing"
    THEN IF tm - dt <= 0 THEN [time |-> tm - dt, f |-> TRUE]
                         ELSE [time |-> tm - dt, f |-> FALSE]
    ELSE [time |-> tm, f |-> FALSE]

\* Transition.tick: the remaining time it leaves and the flag it returns
Transition_tick(ws, tm, dt) ==
    IF ws = "firing"
    THEN IF tm - dt <= 0 THEN [time |-> 0, f |-> TRUE]
                         ELSE [time |-> tm - dt, f |-> FALSE]
    ELSE [time |-> tm, f |-> FALSE]

\* the loop of ColoredPetriNet.tick over self.transitions.values(); s holds
\* the fields the loop has written so far, and in produced the transitions
\* whose output loop (lines 246-248) ran to its end or added tokens
RECURSIVE tick_loop(_, _, _)
tick_loop(ts, dt, s) ==
    IF ts = <<>> THEN s
    ELSE LET t  == Head(ts)
             k  == Transition_tick(s.work_status[t], s.time[t], dt)
             s1 == [s EXCEPT !.time[t] = k.time]
         IN  IF ~k.f THEN tick_loop(Tail(ts), dt, s1)
             ELSE LET o  == produce(out_arcs[t], arcObj, s1.marking)
                      s2 == [s1 EXCEPT !.changed = Append(@, t), !.marking = o.marking,
                                       !.produced = IF o.exc = "None" \/ o.marking # s1.marking
                                                    THEN Append(@, t) ELSE @]
                  IN  IF o.exc # "None" THEN [s2 EXCEPT !.exc = o.exc]
                      ELSE LET s3 == [s2 EXCEPT !.work_status[t] = "unfiring"]
                               u  == update_ready_transition(transitions, in_arcs, arcObj,
                                                             s3.status, s3.marking)
                               s4 == [s3 EXCEPT !.status = u.status]
                           IN  IF u.exc # "None" THEN [s4 EXCEPT !.exc = u.exc]
                               ELSE tick_loop(Tail(ts), dt, s4)

\* ColoredPetriNet.tick
tick_effect(dt) ==
    tick_loop(transitions, dt,
              [exc |-> "None", changed |-> <<>>, produced |-> <<>>,
               marking |-> marking, status |-> status,
               work_status |-> work_status, time |-> time])

\* the list is returned only when no exception ends the call; every
\* transition whose outputs the call produced counts as completed once, and
\* completions more than MaxExtra ahead of the starts are not told apart
tick(dt) ==
    LET e == tick_effect(dt)
    IN  /\ InBounds(e.marking)
        /\ in_flight' = [t \in Transitions |->
                            IF t \in Range(e.produced)
                            THEN IF in_flight[t] - 1 < 0 - MaxExtra THEN 0 - MaxExtra
                                 ELSE in_flight[t] - 1
                            ELSE in_flight[t]]
        /\ marking' = e.marking
        /\ status' = e.status
        /\ work_status' = e.work_status
        /\ time' = e.time
        /\ last' = Call("tick", "-", "-", dt, e.exc,
                        IF e.exc = "None" THEN e.changed ELSE <<>>)
        /\ UNCHANGED <<netVars, arcObj, nodeVars, initial_marking, consumption, fixture>>

\* ---------------------------------------------------------------- reset

\* initialize restoring only the first key of initial_marking
initialize_first_key(p, mk) ==
    LET ks == Keys(initial_marking[p])
    IN  IF ks = <<>> THEN mk[p]
        ELSE [mk[p] EXCEPT ![Head(ks)] = initial_marking[p][Head(ks)]]

\* Place.initialize: the marking dict of place p afterwards
initialize(p, mk) ==
    [k \in (DOMAIN mk[p]) \cup (DOMAIN initial_marking[p]) |->
        IF k \in DOMAIN initial_marking[p] THEN initial_marking[p][k] ELSE mk[p][k]]

\* ColoredPetriNet.reset_net: the markings afterwards
reset_net_effect(mk) ==
    [p \in Places |-> IF p \in Range(places) THEN initialize(p, mk) ELSE mk[p]]

reset_net ==
    /\ marking' = reset_net_effect(marking)
    /\ last' = Call("reset_net", "-", "-", 0, "None", <<>>)
    /\ UNCHANGED <<netVars, arcObj, nodeVars, initial_marking, status, transVars, consumption,
                   in_flight, fixture>>

\* reset that also ends the timed firings in progress
reset_and_stop ==
    LET mk == reset_net_effect(marking)
        u  == update_ready_transition(transitions, in_arcs, arcObj, status, mk)
    IN  /\ marking' = mk
        /\ status' = u.status
        /\ work_status' = [t \in Transitions |-> "unfiring"]
        /\ time' = [t \in Transitions |-> 0]
        /\ last' = Call("reset", "-", "-", 0, u.exc, <<>>)
        /\ UNCHANGED <<netVars, arcObj, nodeVars, initial_marking, consumption,
                       in_flight, fixture>>

\* ColoredPetriNet.reset
reset ==
    LET mk == reset_net_effect(marking)
        u  == update_ready_transition(transitions, in_arcs, arcObj, status, mk)
    IN  /\ marking' = mk
        /\ status' = u.status
        /\ last' = Call("reset", "-", "-", 0, u.exc, <<>>)
        /\ UNCHANGED <<netVars, arcObj, nodeVars, initial_marking, transVars, consumption,
                       in_flight, fixture>>

\* ------------------------------------------------------ ready_transition

\* the loop of the ready_transition property over self.transitions.values();
\* s holds the status fields written and the list collected so far
RECURSIVE ready_transition_loop(_, _)
ready_transition_loop(ts, s) ==
    IF ts = <<>> THEN s
    ELSE LET c == transition_ready_check(Head(ts), in_arcs, arcObj, s.status, marking)
         IN  IF c.ret \notin {"True", "False"}
             THEN [s EXCEPT !.exc = c.ret, !.status = c.status]
             ELSE ready_transition_loop(Tail(ts),
                     [s EXCEPT !.status = c.status,
                               !.res = IF c.ret = "True" THEN Append(@, Head(ts)) ELSE @])

\* ColoredPetriNet.ready_transition: reading the property runs the readiness
\* check, which rewrites the status fields
ready_transition ==
    LET r == ready_transition_loop(transitions, [exc |-> "None", res |-> <<>>, status |-> status])
    IN  /\ status' = r.status
        /\ last' = Call("ready_transition", "-", "-", 0, r.exc,
                        IF r.exc = "None" THEN r.res ELSE <<>>)
        /\ UNCHANGED <<netVars, arcObj, nodeVars, marking, initial_marking, transVars,
                       consumption, in_flight, fixture>>

\* -------------------------------------------------------- specification

Next ==
    \/ \E n \in fixture.nodes : add_node(n)
    \/ \E e \in fixture.pairs : add_arc(e[1], e[2])
    \/ \E a \in DOMAIN arcObj : set_annotation(a)
    \/ \E t \in fixture.nodes \cap Transitions : fire_transition(t)
    \/ \E t \in fixture.nodes \cap Transitions : on_fire_transition(t)
    \/ \E dt \in Deltas : tick(dt)
    \/ reset_net
    \/ reset
    \/ ready_transition

Spec == Init /\ [][Next]_vars

\* ------------------------------------------- the net P1 -> T1 -> P2 alone

\* the callers that hold P1 with n tokens of one colour, T1 and an empty P2
ScenarioA ==
    {f \in Fixtures : /\ f.nodes = {"P1", "T1", "P2"}
                      /\ \E n \in 1..MaxInit : f.marking = Markings(d0(n), d0(0))}

\* every node added, and each of the two arcs added once
Built ==
    /\ Range(places) = {"P1", "P2"}
    /\ Range(transitions) = {"T1"}
    /\ DOMAIN adj = {<<"P1", "T1">>, <<"T1", "P2">>}
    /\ Len(arcs) = 2

InitA == Init /\ fixture \in ScenarioA

\* the caller adds each node and each arc once, in any order, and then only
\* fires T1 and resets the net
NextA ==
    \/ \E n \in fixture.nodes :
          n \notin Range(places) \cup Range(transitions) /\ add_node(n)
    \/ \E e \in fixture.pairs : e \notin DOMAIN adj /\ add_arc(e[1], e[2])
    \/ Built /\ fire_transition("T1")
    \/ Built /\ reset

SpecA == InitA /\ [][NextA]_vars

\* ====================================================================
\* Properties.  The definitions below state what is claimed of the net;
\* they read the arcs from the Arc objects, not from the engine's loops.
\* ====================================================================

Colors == Range(ColorOrder)

\* the arcs into / out of transition t
InArcsOf(t)  == {a \in DOMAIN arcObj : arcObj[a].direction = "PtoT" /\ arcObj[a].node_out = t}
OutArcsOf(t) == {a \in DOMAIN arcObj : arcObj[a].direction = "TtoP" /\ arcObj[a].node_in = t}
SourcesOf(t) == {arcObj[a].node_in : a \in InArcsOf(t)}
DestsOf(t)   == {arcObj[a].node_out : a \in OutArcsOf(t)}

\* the weight of colour k on arc a, and a marking's count of colour k
Weight(a, k) == IF k \in DOMAIN arcObj[a].annotation THEN arcObj[a].annotation[k] ELSE 0
Count(m, k)  == IF k \in DOMAIN m THEN m[k] ELSE 0

RECURSIVE SumWeights(_, _)
SumWeights(S, k) ==
    IF S = {} THEN 0
    ELSE LET a == CHOOSE x \in S : TRUE IN Weight(a, k) + SumWeights(S \ {a}, k)

\* colour-k weight of t's arcs from / into place p
InWeight(t, p, k)  == SumWeights({a \in InArcsOf(t) : arcObj[a].node_in = p}, k)
OutWeight(t, p, k) == SumWeights({a \in OutArcsOf(t) : arcObj[a].node_out = p}, k)

\* colour-k weight produced into place p by the transitions of S together
RECURSIVE SumOut(_, _, _)
SumOut(S, p, k) ==
    IF S = {} THEN 0
    ELSE LET t == CHOOSE x \in S : TRUE IN OutWeight(t, p, k) + SumOut(S \ {t}, p, k)

Owned(t) == t \in Range(transitions)
Returned(c) == c.ret \in {"None", "True", "False"}

\* C1: no Place marking count for any colour is ever negative.
C1_NonNegative ==
    \A p \in Places : \A k \in DOMAIN marking[p] : marking[p][k] >= 0

\* sum over the places of S of (count of colour k in a) - (count in b)
RECURSIVE SumDiff(_, _, _, _)
SumDiff(S, a, b, k) ==
    IF S = {} THEN 0
    ELSE LET p == CHOOSE x \in S : TRUE
         IN  (Count(a[p], k) - Count(b[p], k)) + SumDiff(S \ {p}, a, b, k)

\* C2: across a successful fire_transition(T), for every colour the total
\* removed from T's source places is the sum of T's in-arc weights, the total
\* added to T's destination places is the sum of T's out-arc weights, and no
\* other place changes (an absent marking entry counts as zero tokens).
C2_Conservation ==
    [][ (last'.op = "fire_transition" /\ last'.ret = "True") =>
          LET t == last'.node IN
          /\ \A k \in Colors :
                /\ SumDiff(SourcesOf(t), marking, marking', k) = SumWeights(InArcsOf(t), k)
                /\ SumDiff(DestsOf(t), marking', marking, k) = SumWeights(OutArcsOf(t), k)
          /\ \A p \in Places \ (SourcesOf(t) \cup DestsOf(t)) : marking'[p] = marking[p]
      ]_vars

\* 'ready' iff every in-arc has a colour whose count covers its weight
ArcCovered(a) ==
    \E k \in DOMAIN arcObj[a].annotation :
        Count(marking[arcObj[a].node_in], k) >= arcObj[a].annotation[k]
FreshStatus(t) == IF \A a \in InArcsOf(t) : ArcCovered(a) THEN "ready" ELSE "unready"

\* C3: after every completed add_node, add_arc, fire_transition or
\* on_fire_transition, and after a tick that completed a transition, every
\* transition's cached status is what a fresh readiness check would compute.
C3_StatusFresh ==
    ( \/ (last.op \in {"add_node", "add_arc", "fire_transition", "on_fire_transition"}
          /\ Returned(last))
      \/ (last.op = "tick" /\ last.ret = "None" /\ last.changed # <<>>) )
    => \A t \in Range(transitions) : status[t] = FreshStatus(t)

\* C4: a timed firing of T of duration D > 0: a tick(d1) with d1 < D leaves T
\* firing and adds none of T's outputs; a following tick(d2) with d1 + d2 >= D
\* leaves T unfiring, its out-arc weights added to its destination places and
\* T's name in the returned list; T produces nothing while its remaining time
\* exceeds the delta.
C4_TwoPhase ==
    [][ last'.op = "tick" =>
          \A t \in Range(transitions) :
            (work_status[t] = "firing" /\ consumption[t] > 0) =>
              LET D  == consumption[t]
                  d  == last'.dt
                  done == Range(last'.changed)
              IN
              /\ (time[t] = D /\ d < D) =>
                    /\ work_status'[t] = "firing"
                    /\ t \notin done
                    /\ last'.ret = "None" =>
                         \A p \in DestsOf(t) : \A k \in Colors :
                            Count(marking'[p], k) = Count(marking[p], k) + SumOut(done, p, k)
              /\ (last.op = "tick" /\ last.dt < D /\ time[t] = D - last.dt /\ last.dt + d >= D) =>
                    /\ work_status'[t] = "unfiring"
                    /\ t \in done
                    /\ \A p \in DestsOf(t) : \A k \in Colors :
                            Count(marking'[p], k) = Count(marking[p], k) + SumOut(done, p, k)
              /\ (time[t] > d) => (work_status'[t] = "firing" /\ t \notin done)
      ]_vars

\* C5: reset leaves every place of the net with exactly its initial marking,
\* and a reset made right after a reset changes neither the markings nor the
\* cached statuses.
C5_ResetRestores ==
    [][ last'.op = "reset" =>
          /\ \A p \in Range(places) : marking'[p] = initial_marking[p]
          /\ last.op = "reset" => (marking' = marking /\ status' = status)
      ]_vars

\* a reset made while a timed firing that consumed tokens of a place of the
\* net is in progress
C5_Witness ==
    /\ last.op = "reset"
    /\ \E t \in Range(transitions) :
          /\ work_status[t] = "firing"
          /\ SourcesOf(t) \cap Range(places) # {}

\* every in-arc can be checked and some in-arc has no colour covered
NotReady(t) ==
    /\ \A a \in Range(in_arcs[t]) :
          /\ arcObj[a].direction = "PtoT"
          /\ DOMAIN arcObj[a].annotation \subseteq DOMAIN marking[arcObj[a].node_in]
    /\ \E a \in Range(in_arcs[t]) : ~ArcCovered(a)

\* C6: a rejected fire_transition / on_fire_transition returns False and
\* leaves every marking, work_status and remaining time as they were: when the
\* transition is not owned by the net, when it is not ready, and (for
\* on_fire_transition) when it is already firing, in which case the timer is
\* not restarted and nothing is consumed again.
C6_RejectedUnchanged ==
    [][ last'.op \in {"fire_transition", "on_fire_transition"} =>
          LET t == last'.node
              same == marking' = marking /\ work_status' = work_status /\ time' = time
          IN
          /\ last'.ret = "False" => same
          /\ ~Owned(t) => last'.ret = "False"
          /\ (Owned(t) /\ NotReady(t)) => last'.ret = "False"
          /\ (last'.op = "on_fire_transition" /\ Owned(t) /\ work_status[t] = "firing") =>
                (last'.ret # "True" /\ same)
      ]_vars

\* an on_fire_transition rejected only because the transition is firing
C6_Witness ==
    /\ last.op = "on_fire_transition"
    /\ last.ret = "False"
    /\ Owned(last.node)
    /\ status[last.node] = "ready"
    /\ work_status[last.node] = "firing"
    /\ InArcsOf(last.node) # {}

ValidPair(n1, n2) ==
    \/ (n1 \in Places /\ n2 \in Transitions)
    \/ (n1 \in Transitions /\ n2 \in Places)

\* C7: add_arc with endpoints that are not one Place and one Transition
\* registers nothing: arcs, adj, name_node, id_name and the endpoints'
\* ins / outs / in_arcs / out_arcs are as before the call.
C7_InvalidArcNotRegistered ==
    [][ (last'.op = "add_arc" /\ ~ValidPair(last'.node, last'.node2)) =>
          /\ arcs' = arcs /\ adj' = adj /\ name_node' = name_node /\ id_name' = id_name
          /\ ins' = ins /\ outs' = outs /\ in_arcs' = in_arcs /\ out_arcs' = out_arcs
      ]_vars

\* some arc of t has no annotation entry for a key of the place it moves
\* tokens of
KeyMismatch(t) ==
    \/ \E a \in InArcsOf(t) :
          ~(DOMAIN marking[arcObj[a].node_in] \subseteq DOMAIN arcObj[a].annotation)
    \/ \E a \in OutArcsOf(t) :
          ~(DOMAIN marking[arcObj[a].node_out] \subseteq DOMAIN arcObj[a].annotation)

\* C8: a fire_transition / on_fire_transition that fails on a marking key
\* missing from an arc annotation leaves all state unchanged: no marking
\* partly moved, no work_status or remaining time changed.
C8_MismatchAtomic ==
    [][ (last'.op \in {"fire_transition", "on_fire_transition"}
         /\ last'.ret = "KeyError" /\ KeyMismatch(last'.node)) =>
          (marking' = marking /\ work_status' = work_status /\ time' = time)
      ]_vars

\* C9: a successful on_fire_transition(T) subtracts, within the call, T's
\* in-arc weights from each colour entry of T's source places, sets T firing
\* with remaining time = consumption, and changes no other marking entry (in
\* particular none of T's destination places) and no other transition.
C9_OnFireConsumesOnly ==
    [][ (last'.op = "on_fire_transition" /\ last'.ret = "True") =>
          LET t == last'.node IN
          /\ \A p \in Places :
                /\ DOMAIN marking'[p] = DOMAIN marking[p]
                /\ \A k \in DOMAIN marking[p] :
                      marking'[p][k] = marking[p][k] - InWeight(t, p, k)
          /\ work_status'[t] = "firing"
          /\ time'[t] = consumption[t]
          /\ \A u \in Transitions \ {t} :
                work_status'[u] = work_status[u] /\ time'[u] = time[u]
      ]_vars

\* a successful on_fire_transition of a transition with a source place that
\* lost tokens and a destination place
C9_Witness ==
    /\ last.op = "on_fire_transition"
    /\ last.ret = "True"
    /\ \E p \in SourcesOf(last.node) : marking[p] # initial_marking[p]
    /\ DestsOf(last.node) # {}

\* C10: tick(dt) returns, in insertion order, exactly the transitions that
\* were firing with remaining time <= dt; each ends unfiring with remaining
\* time 0 and its out-arc weights added to its destination places (summed over
\* the completing transitions); every other firing transition stays firing
\* with its remaining time reduced by dt.
C10_TickCompletes ==
    [][ last'.op = "tick" =>
          LET d == last'.dt
              due(t) == work_status[t] = "firing" /\ time[t] <= d
              done == {t \in Range(transitions) : due(t)}
          IN
          /\ last'.changed = SelectSeq(transitions, due)
          /\ \A t \in done : time'[t] = 0 /\ work_status'[t] = "unfiring"
          /\ \A p \in Places : \A k \in Colors :
                Count(marking'[p], k) = Count(marking[p], k) + SumOut(done, p, k)
          /\ \A t \in Range(transitions) :
                (work_status[t] = "firing" /\ time[t] > d) =>
                    (work_status'[t] = "firing" /\ time'[t] = time[t] - d)
      ]_vars

\* C11: in the net P1 -> T1 -> P2 (one colour, weights 1, P1 constructed with
\* n tokens, P2 with 0) driven by fire_transition(T1) and reset alone, P1 and
\* P2 always hold n tokens together; a fire_transition(T1) succeeds and moves
\* one token while P1 holds one, that is on each of the first n calls, and
\* every later call returns False with P1 = 0 and P2 = n left as they are; a
\* reset restores P1 = n and P2 = 0.
C11_ScenarioA ==
    [][ LET n  == initial_marking["P1"]["0"]
            p1 == marking["P1"]["0"]
            p2 == marking["P2"]["0"]
        IN
        /\ last'.op = "fire_transition" =>
              /\ p1 + p2 = n /\ p1 >= 0 /\ p2 >= 0
              /\ IF p2 < n
                 THEN /\ last'.ret = "True"
                      /\ marking' = Markings(d0(p1 - 1), d0(p2 + 1))
                 ELSE /\ last'.ret = "False"
                      /\ marking' = marking
                      /\ marking = Markings(d0(0), d0(n))
        /\ last'.op = "reset" =>
              (last'.ret = "None" /\ marking' = Markings(d0(n), d0(0)))
      ]_vars

\* the call after the MaxInit successful ones has failed
C11_Witness ==
    /\ Built
    /\ last.op = "fire_transition" /\ last.ret = "False"
    /\ initial_marking["P1"]["0"] = MaxInit
    /\ marking = Markings(d0(0), d0(MaxInit))


\* an arc of t.in_arcs is ready iff it is a PtoT arc with some colour of its
\* annotation covered by the source place
InArcReady(a) == arcObj[a].direction = "PtoT" /\ ArcCovered(a)
AllInArcsReady(t) == \A a \in Range(in_arcs[t]) : InArcReady(a)

\* C12: the readiness check returns True and sets 'ready' iff every incoming
\* arc of the transition is ready (some colour of the arc's annotation has a
\* source count >= its weight), otherwise returns False and sets 'unready'; a
\* transition without incoming arcs is ready; ready_transition runs the check
\* on every transition of the net and returns exactly the ready ones.
C12_ReadyCheck ==
    [][ last'.op = "ready_transition" =>
          /\ last'.ret = "None"
          /\ last'.changed = SelectSeq(transitions, AllInArcsReady)
          /\ \A t \in Range(transitions) :
                /\ status'[t] = IF AllInArcsReady(t) THEN "ready" ELSE "unready"
                /\ in_arcs[t] = <<>> => status'[t] = "ready"
      ]_vars

\* C13: while a transition is firing (between a successful
\* on_fire_transition and its completion by tick), a fire_transition call on
\* it returns False and changes no marking.
C13_ProtocolsExclusive ==
    [][ (last'.op = "fire_transition" /\ Owned(last'.node)
         /\ work_status[last'.node] = "firing" /\ in_flight[last'.node] = 1) =>
          (last'.ret = "False" /\ marking' = marking)
      ]_vars

\* the Arc objects the net holds in arcs, and the net's nodes
NetArcs == Range(arcs)
NetNodes == Range(places) \cup Range(transitions)
Starts(a, n) == arcObj[a].direction # "unset" /\ arcObj[a].node_in = n
Ends(a, n) == arcObj[a].direction # "unset" /\ arcObj[a].node_out = n

\* C14: after any add_node / add_arc calls every arc of the net's arcs has
\* both endpoints among the net's places and transitions, and for every node
\* its out_arcs / in_arcs are exactly the net's arcs that start / end at it,
\* its outs / ins are the other endpoints of those arcs, and each of those
\* arcs is the one stored in adj under its (source, target) pair.
C14_ArcIndexes ==
    /\ \A a \in NetArcs :
          /\ arcObj[a].direction # "unset"
          /\ arcObj[a].node_in \in NetNodes
          /\ arcObj[a].node_out \in NetNodes
    /\ \A n \in Nodes :
          /\ Range(out_arcs[n]) = {a \in NetArcs : Starts(a, n)}
          /\ Range(in_arcs[n]) = {a \in NetArcs : Ends(a, n)}
          /\ outs[n] = {arcObj[a].node_out : a \in {b \in NetArcs : Starts(b, n)}}
          /\ ins[n] = {arcObj[a].node_in : a \in {b \in NetArcs : Ends(b, n)}}
          /\ \A a \in Range(out_arcs[n]) \cup Range(in_arcs[n]) :
                /\ arcObj[a].direction # "unset"
                /\ <<arcObj[a].node_in, arcObj[a].node_out>> \in DOMAIN adj
                /\ adj[<<arcObj[a].node_in, arcObj[a].node_out>>] = a

\* C15: tick leaves every transition that is unfiring before the call with
\* its work_status and remaining time unchanged, does not list it in the
\* returned completions, and adds none of its out-arc weights: a marking that
\* tick changes is that of a destination of a transition that was firing, and
\* with no exception it grows by the out-arc weights of the returned
\* transitions alone.
C15_UnfiringUntouched ==
    [][ last'.op = "tick" =>
          LET idle == {t \in Transitions : work_status[t] = "unfiring"}
              busy == {t \in Range(transitions) : work_status[t] = "firing"}
          IN
          /\ \A t \in idle :
                /\ work_status'[t] = "unfiring"
                /\ time'[t] = time[t]
                /\ in_flight'[t] = in_flight[t]
                /\ t \notin Range(last'.changed)
          /\ Range(last'.changed) \subseteq busy
          /\ \A p \in Places :
                marking'[p] # marking[p] => \E t \in busy : p \in DestsOf(t)
          /\ busy = {} => marking' = marking
      ]_vars

\* a tick that completed one transition while another transition of the net,
\* with an out-arc of its own, was unfiring
C15_Witness ==
    /\ last.op = "tick" /\ last.ret = "None" /\ last.changed # <<>>
    /\ \E t \in Range(transitions) \ Range(last.changed) :
          /\ work_status[t] = "unfiring"
          /\ DestsOf(t) # {}
          /\ \E u \in Range(last.changed) : DestsOf(u) \cap DestsOf(t) # {}

C17_TimeRange ==
    \A t \in Transitions :
        /\ 0 <= time[t] /\ time[t] <= consumption[t]
        /\ work_status[t] = "unfiring" => time[t] = 0

\* a tick has left a timed firing part-way through
C17_Witness ==
    /\ last.op = "tick"
    /\ \E t \in Range(transitions) :
          work_status[t] = "firing" /\ 0 < time[t] /\ time[t] < consumption[t]

\* C18: for every transition, the completions by tick never exceed the
\* successful on_fire_transition calls and lag them by at most one
\* (in_flight, the difference of the two counts, is 0 or 1), and the
\* transition is firing exactly when the two counts differ.
C18_StartsAndCompletions ==
    \A t \in Transitions :
        /\ in_flight[t] \in {0, 1}
        /\ work_status[t] = "firing" <=> in_flight[t] = 1

\* ------------------------------------------- tick called again and again

\* the caller keeps calling tick with a strictly positive delta
PositiveTick == \E dt \in 1..MaxDur : tick(dt)

FairSpec == Spec /\ WF_vars(PositiveTick)

\* no tick with a positive delta is followed any further: some marking would
\* leave -MaxTokens..MaxTokens
TickCapped == \A dt \in 1..MaxDur : ~InBounds(tick_effect(dt).marking)

\* C19: when tick keeps being called with a strictly positive delta, every
\* transition that is firing eventually is unfiring (its timed firing
\* completes, so no transition stays firing for ever); a zero-duration
\* transition that is firing is completed, its outputs produced, by the very
\* next tick, whatever its delta.
C19_EventuallyCompletes ==
    /\ \A t \in Transitions : []<>(work_status[t] = "unfiring" \/ TickCapped)
    /\ [][ (last'.op = "tick") =>
              \A t \in Range(transitions) :
                 (work_status[t] = "firing" /\ consumption[t] = 0) =>
                     (work_status'[t] = "unfiring" /\ in_flight'[t] = in_flight[t] - 1)
         ]_vars

\* C20: a reset made while a transition is firing leaves the places of the
\* net with their initial markings, and the tick that then completes the
\* transition, with no firing call in between, adds the out-arc weights of the
\* completed transitions on top of the restored markings (so that a place
\* comes to hold more than its initial marking).
C20_ResetWhileFiring ==
    [][ /\ (last'.op = "reset" /\ \E t \in Range(transitions) : work_status[t] = "firing")
              => \A p \in Range(places) : marking'[p] = initial_marking[p]
        /\ (last'.op = "tick" /\ last.op = "reset" /\ last'.changed # <<>>)
              => \A p \in Range(places) : \A k \in Colors :
                    Count(marking'[p], k) =
                        Count(initial_marking[p], k) + SumOut(Range(last'.changed), p, k)
      ]_vars

====
